---------------------------- MODULE Spec2Model ----------------------------
(***************************************************************************)
(* Model of High_Close_Ratio.py: the indicator computation, the signal     *)
(* definition and the next-bar backtest that run when the button is        *)
(* pressed.                                                                *)
(*                                                                         *)
(* A pandas float is modelled exactly: a value is a record                 *)
(*   [k |-> "num", n |-> numerator, d |-> denominator > 0]   a finite value *)
(*   [k |-> "inf", n |-> 1 or -1, d |-> 1]                   +inf / -inf    *)
(*   [k |-> "nan", n |-> 0, d |-> 1]                         NaN            *)
(* so that IEEE division by zero, NaN propagation, fillna and dropna are   *)
(* modelled by what they do.  Rows are numbered 1..Len(data); row t of the *)
(* model is bar t-1 of the 0-based numbering.                              *)
(* Thresholds are kept in the units of their sliders: the high-close       *)
(* threshold in hundredths (step 0.01), the volume multiplier in tenths    *)
(* (step 0.1).                                                             *)
(***************************************************************************)
EXTENDS Integers, Sequences, FiniteSets, TLC

VARIABLES
    pc,                    \* position in the script
    data,                  \* the downloaded bars: sequence of [Close, High, Volume]
    sma_period,            \* sidebar slider
    high_close_threshold,  \* sidebar slider, in hundredths
    volume_multiplier,     \* sidebar slider, in tenths
    SMA, Avg_Volume, High_Close_Ratio, Volume_Ratio,   \* indicator columns
    Strong_Trend, High_Close, High_Volume, Signal,     \* boolean columns
    Next_Close, Return, Success,                       \* backtest columns
    signals,               \* the filtered signal rows
    outcome,               \* what the script reported
    summary                \* the figures of the results branch

vars == <<pc, data, sma_period, high_close_threshold, volume_multiplier,
          SMA, Avg_Volume, High_Close_Ratio, Volume_Ratio,
          Strong_Trend, High_Close, High_Volume, Signal,
          Next_Close, Return, Success, signals, outcome, summary>>

-----------------------------------------------------------------------------
(* Bounds of the model and constants of the program *)

MaxBars == 25            \* longest bar sequence explored

VolWindow == 20          \* rolling(window=20) of Volume
SmaMin == 10             \* lower end of the SMA slider
SmaDefault == 20         \* default of the SMA slider
HighCloseDefault == 98   \* default 0.98 of the high-close slider, in hundredths
HighCloseMax == 100      \* upper end 1.00 of the high-close slider, in hundredths
VolMultMin == 10         \* lower end 1.0 of the volume slider, in tenths
VolMultDefault == 15     \* default 1.5 of the volume slider, in tenths
HighCloseUnit == 100     \* hundredths per unit of the high-close slider
VolMultUnit == 10        \* tenths per unit of the volume slider
Percent == 100           \* the "* 100" of the percentages

-----------------------------------------------------------------------------
(* Floating-point values *)

Num(x) == [k |-> "num", n |-> x, d |-> 1]
Frac(x, y) == [k |-> "num", n |-> x, d |-> y]
NaN == [k |-> "nan", n |-> 0, d |-> 1]
PosInf == [k |-> "inf", n |-> 1, d |-> 1]
NegInf == [k |-> "inf", n |-> -1, d |-> 1]

IsNaN(a) == a.k = "nan"
IsFinite(a) == a.k = "num"

\* a - b
Sub(a, b) ==
    IF IsNaN(a) \/ IsNaN(b) THEN NaN
    ELSE IF a.k = "inf" /\ b.k = "inf" THEN (IF a.n = b.n THEN NaN ELSE a)
    ELSE IF a.k = "inf" THEN a
    ELSE IF b.k = "inf" THEN (IF b.n > 0 THEN NegInf ELSE PosInf)
    ELSE Frac(a.n * b.d - b.n * a.d, a.d * b.d)

\* a / b, IEEE: x/0 is +-inf for x # 0 and NaN for x = 0; NaN propagates
Div(a, b) ==
    IF IsNaN(a) \/ IsNaN(b) THEN NaN
    ELSE IF a.k = "inf" /\ b.k = "inf" THEN NaN
    ELSE IF a.k = "inf" THEN
        (IF b.n >= 0 THEN a ELSE (IF a.n > 0 THEN NegInf ELSE PosInf))
    ELSE IF b.k = "inf" THEN Num(0)
    ELSE IF b.n = 0 THEN
        (IF a.n > 0 THEN PosInf ELSE IF a.n < 0 THEN NegInf ELSE NaN)
    ELSE IF b.n > 0 THEN Frac(a.n * b.d, a.d * b.n)
    ELSE Frac(-(a.n * b.d), a.d * (-(b.n)))

\* a > b; every comparison with NaN is False
Gt(a, b) ==
    IF IsNaN(a) \/ IsNaN(b) THEN FALSE
    ELSE IF a.k = "inf" THEN a.n > 0 /\ ~(b.k = "inf" /\ b.n > 0)
    ELSE IF b.k = "inf" THEN b.n < 0
    ELSE a.n * b.d > b.n * a.d

\* a >= b; every comparison with NaN is False
Ge(a, b) ==
    IF IsNaN(a) \/ IsNaN(b) THEN FALSE
    ELSE IF a.k = "inf" THEN a.n > 0 \/ (b.k = "inf" /\ b.n < 0)
    ELSE IF b.k = "inf" THEN b.n < 0
    ELSE a.n * b.d >= b.n * a.d

\* Series.fillna(0): only NaN is replaced, +-inf is not
FillNa0(s) == [t \in 1..Len(s) |-> IF IsNaN(s[t]) THEN Num(0) ELSE s[t]]

-----------------------------------------------------------------------------
(* Columns *)

Col(field) == [t \in 1..Len(data) |-> Num(data[t][field])]

RECURSIVE SumFrom(_, _, _)
\* s[lo] + ... + s[hi] of integers
SumFrom(s, lo, hi) == IF lo > hi THEN 0 ELSE s[hi] + SumFrom(s, lo, hi - 1)

\* a rolling mean with min_periods=1: the mean of the values available so far
RollingMeanMinPeriods1(field, w) ==
    LET col == [i \in 1..Len(data) |-> data[i][field]]
    IN [t \in 1..Len(data) |->
          IF t < w THEN Frac(SumFrom(col, 1, t), t)
          ELSE Frac(SumFrom(col, t - w + 1, t), w)]

\* Series.rolling(window=w).mean(): NaN until w values are available
\* (min_periods defaults to the window), then the mean of the w values
\* ending at and including t
RollingMean(field, w) ==
    LET col == [i \in 1..Len(data) |-> data[i][field]]
    IN [t \in 1..Len(data) |->
          IF t < w THEN NaN ELSE Frac(SumFrom(col, t - w + 1, t), w)]

\* Series.shift(-1): the next row's value, NaN on the last row
ShiftBack(s) == [t \in 1..Len(s) |-> IF t < Len(s) THEN s[t + 1] ELSE NaN]

-----------------------------------------------------------------------------
(* The bar sequences and slider settings explored *)

BaseClose == 100         \* close of the first bar of a sequence
BaseVolume == 1000000    \* the ordinary volume of a bar
MarkedRow == 23          \* a row past both warm-ups that may carry the marked bar

Slopes == {0, 1}                       \* close constant, or rising by 1 a bar
VolumeLevels == {0, BaseVolume}        \* the volume of the ordinary bars
MarkedCloses == {"own", "zero"}        \* the marked bar's close
MarkedHighs == {"close", "zero", "above"}  \* the marked bar's high
MarkedVolumes == {0, BaseVolume, 2 * BaseVolume}
SmaPeriods == {SmaMin, SmaDefault}
HighCloseThresholds == {HighCloseDefault, HighCloseMax}
VolumeMultipliers == {VolMultMin, VolMultDefault}

\* rows that may carry the marked bar in a sequence of n bars (0: no marked bar)
MarkedRows(n) == {0} \cup ({1, VolWindow, MarkedRow, n} \cap (1..n))

\* Bar t of the sequence: ordinary bars have high = close and the ordinary
\* volume; the marked bar p has its own close, high and volume.
BarAt(t, slope, vol, p, mc, mh, mv) ==
    LET own == BaseClose + slope * (t - 1)
        c == IF t = p /\ mc = "zero" THEN 0 ELSE own
        h == IF t # p \/ mh = "close" THEN c
             ELSE IF mh = "zero" THEN 0 ELSE 2 * c + 1
        v == IF t = p THEN mv ELSE vol
    IN [Close |-> c, High |-> h, Volume |-> v]

Bars(n, slope, vol, p, mc, mh, mv) ==
    [t \in 1..n |-> BarAt(t, slope, vol, p, mc, mh, mv)]

NotComputed == <<>>
NoSummary == [computed |-> FALSE]

Init ==
    /\ pc = "start"
    /\ \E n \in 0..MaxBars, slope \in Slopes, vol \in VolumeLevels :
         \E p \in MarkedRows(n) :
           \E mc \in MarkedCloses, mh \in MarkedHighs, mv \in MarkedVolumes :
              /\ p = 0 => (mc = "own" /\ mh = "close" /\ mv = 0)
              /\ data = Bars(n, slope, vol, p, mc, mh, mv)
    /\ sma_period \in SmaPeriods
    /\ high_close_threshold \in HighCloseThresholds
    /\ volume_multiplier \in VolumeMultipliers
    /\ SMA = NotComputed /\ Avg_Volume = NotComputed
    /\ High_Close_Ratio = NotComputed /\ Volume_Ratio = NotComputed
    /\ Strong_Trend = NotComputed /\ High_Close = NotComputed
    /\ High_Volume = NotComputed /\ Signal = NotComputed
    /\ Next_Close = NotComputed /\ Return = NotComputed /\ Success = NotComputed
    /\ signals = NotComputed
    /\ outcome = "none"
    /\ summary = NoSummary

-----------------------------------------------------------------------------
(* The steps of the script *)

\* the SMA column without its fillna(0)
SmaColumnUnfilled == RollingMean("Close", sma_period)

\* data['SMA'] = data['Close'].rolling(window=sma_period).mean().fillna(0)
SmaColumn == FillNa0(RollingMean("Close", sma_period))

\* data['Avg_Volume'] = data['Volume'].rolling(window=20).mean().fillna(0)
AvgVolumeColumn == FillNa0(RollingMean("Volume", VolWindow))

\* data['High_Close_Ratio'] = (data['Close'] / data['High']).fillna(0)
HighCloseRatioColumn ==
    FillNa0([t \in 1..Len(data) |-> Div(Num(data[t].Close), Num(data[t].High))])

\* data['Volume_Ratio'] = (data['Volume'] / data['Avg_Volume']).fillna(0)
VolumeRatioColumn(avg) ==
    FillNa0([t \in 1..Len(data) |-> Div(Num(data[t].Volume), avg[t])])

CalcIndicators ==
    /\ pc = "start"
    /\ SMA' = SmaColumn
    /\ Avg_Volume' = AvgVolumeColumn
    /\ High_Close_Ratio' = HighCloseRatioColumn
    /\ Volume_Ratio' = VolumeRatioColumn(AvgVolumeColumn)
    /\ pc' = "indicators"
    /\ UNCHANGED <<data, sma_period, high_close_threshold, volume_multiplier,
                   Strong_Trend, High_Close, High_Volume, Signal,
                   Next_Close, Return, Success, signals, outcome, summary>>

\* the trend comparison written with >=
StrongTrendAtOrEqual(t) == Ge(Num(data[t].Close), SMA[t])

\* data['Strong_Trend'] = data['Close'] > data['SMA']
StrongTrendAt(t) == Gt(Num(data[t].Close), SMA[t])

\* data['High_Close'] = data['High_Close_Ratio'] >= high_close_threshold
HighCloseAt(t) == Ge(High_Close_Ratio[t], Frac(high_close_threshold, HighCloseUnit))

\* data['High_Volume'] = data['Volume_Ratio'] > volume_multiplier
HighVolumeAt(t) == Gt(Volume_Ratio[t], Frac(volume_multiplier, VolMultUnit))

\* the conjunction written with | in place of &
SignalOfAny(trend, hc, hv) == trend \/ hc \/ hv

\* data['Signal'] = data['Strong_Trend'] & data['High_Close'] & data['High_Volume']
SignalOf(trend, hc, hv) == trend /\ hc /\ hv

DefineSignal ==
    /\ pc = "indicators"
    /\ Strong_Trend' = [t \in 1..Len(data) |-> StrongTrendAt(t)]
    /\ High_Close' = [t \in 1..Len(data) |-> HighCloseAt(t)]
    /\ High_Volume' = [t \in 1..Len(data) |-> HighVolumeAt(t)]
    /\ Signal' = [t \in 1..Len(data) |->
                    SignalOf(StrongTrendAt(t), HighCloseAt(t), HighVolumeAt(t))]
    /\ pc' = "signal"
    /\ UNCHANGED <<data, sma_period, high_close_threshold, volume_multiplier,
                   SMA, Avg_Volume, High_Close_Ratio, Volume_Ratio,
                   Next_Close, Return, Success, signals, outcome, summary>>

\* data['Return'] = (data['Next_Close'] - data['Close']) / data['Close']
ReturnColumn(next) ==
    [t \in 1..Len(data) |->
        Div(Sub(next[t], Num(data[t].Close)), Num(data[t].Close))]

\* the success flag written with >=
SuccessOfOrEqual(ret) == Ge(ret, Num(0))

\* data['Success'] = data['Return'] > 0
SuccessOf(ret) == Gt(ret, Num(0))

\* the rows of the frame, with the columns the results use
Row(t, next, ret) ==
    [idx |-> t,
     Close |-> Num(data[t].Close),
     High_Close_Ratio |-> High_Close_Ratio[t],
     Volume_Ratio |-> Volume_Ratio[t],
     Signal |-> Signal[t],
     Next_Close |-> next[t],
     Return |-> ret[t],
     Success |-> SuccessOf(ret[t])]

IsSignalRow(r) == r.Signal = TRUE
HasNextClose(r) == ~IsNaN(r.Next_Close)

\* the filter without its dropna
FilterSignalsKeepLast(rows) == SelectSeq(rows, IsSignalRow)

\* signals = data[data['Signal'] == True].copy()
\* signals = signals.dropna(subset=['Next_Close'])
FilterSignals(rows) == SelectSeq(SelectSeq(rows, IsSignalRow), HasNextClose)

Backtest ==
    /\ pc = "signal"
    /\ LET next == ShiftBack(Col("Close"))
           ret == ReturnColumn(next)
       IN /\ Next_Close' = next
          /\ Return' = ret
          /\ Success' = [t \in 1..Len(data) |-> SuccessOf(ret[t])]
          /\ signals' = FilterSignals([t \in 1..Len(data) |-> Row(t, next, ret)])
    /\ pc' = "backtest"
    /\ UNCHANGED <<data, sma_period, high_close_threshold, volume_multiplier,
                   SMA, Avg_Volume, High_Close_Ratio, Volume_Ratio,
                   Strong_Trend, High_Close, High_Volume, Signal,
                   outcome, summary>>

IsSuccessRow(r) == r.Success = TRUE
IsNumberRow(r) == ~IsNaN(r.Return)

\* signals['Success'].sum()
CountSuccess(rows) == Len(SelectSeq(rows, IsSuccessRow))

\* signals['Return'].mean(): NaN entries are skipped, the others are summed
\* and divided by their number.  The sum is kept as its addends.
ReturnMean(rows) ==
    LET kept == SelectSeq(rows, IsNumberRow)
    IN [addends |-> [i \in 1..Len(kept) |-> kept[i].Return],
        count |-> Len(kept)]

\* the branch taken on data.empty in place of signals.empty
DataEmpty == Len(data) = 0

\* if signals.empty:
SignalsEmpty == Len(signals) = 0

\* st.warning("no signal days found ...")
ReportNoSignals ==
    /\ pc = "backtest"
    /\ SignalsEmpty
    /\ outcome' = "no_signals"
    /\ pc' = "done"
    /\ UNCHANGED <<data, sma_period, high_close_threshold, volume_multiplier,
                   SMA, Avg_Volume, High_Close_Ratio, Volume_Ratio,
                   Strong_Trend, High_Close, High_Volume, Signal,
                   Next_Close, Return, Success, signals, summary>>

\* the else branch: success rate, counts, detail table, mean return
ReportResults ==
    /\ pc = "backtest"
    /\ ~SignalsEmpty
    /\ summary' = [computed |-> TRUE,
                   success_rate |-> Frac(CountSuccess(signals) * Percent, Len(signals)),
                   total_signals |-> Len(signals),
                   successes |-> CountSuccess(signals),
                   avg_return |-> ReturnMean(signals)]
    /\ outcome' = "results"
    /\ pc' = "done"
    /\ UNCHANGED <<data, sma_period, high_close_threshold, volume_multiplier,
                   SMA, Avg_Volume, High_Close_Ratio, Volume_Ratio,
                   Strong_Trend, High_Close, High_Volume, Signal,
                   Next_Close, Return, Success, signals>>

Next ==
    \/ CalcIndicators
    \/ DefineSignal
    \/ Backtest
    \/ ReportNoSignals
    \/ ReportResults

Spec == Init /\ [][Next]_vars

-----------------------------------------------------------------------------
(* Properties *)

N == Len(data)
HasIndicators == pc \in {"indicators", "signal", "backtest", "done"}
HasSignal == pc \in {"signal", "backtest", "done"}
HasBacktest == pc \in {"backtest", "done"}

IsZero(a) == a.k = "num" /\ a.n = 0
RecordRows == {signals[i].idx : i \in 1..Len(signals)}

RECURSIVE ClosesEndingAt(_, _)
\* the sum of the w closes ending at and including row t
ClosesEndingAt(t, w) == IF w = 0 THEN 0 ELSE data[t].Close + ClosesEndingAt(t - 1, w - 1)

RECURSIVE VolumesEndingAt(_, _)
\* the sum of the w volumes ending at and including row t
VolumesEndingAt(t, w) == IF w = 0 THEN 0 ELSE data[t].Volume + VolumesEndingAt(t - 1, w - 1)

\* the example run: 25 bars, close 100..124, high = close, volume 1,000,000
\* except 2,000,000 on bar 22 (row 23), SMA window 20, thresholds 0.98 and 1.5
IsExampleRun ==
    /\ data = [t \in 1..25 |->
                 [Close |-> 99 + t, High |-> 99 + t,
                  Volume |-> IF t = 23 THEN 2000000 ELSE 1000000]]
    /\ sma_period = 20
    /\ high_close_threshold = 98
    /\ volume_multiplier = 15

\* C1: in the example run signal_records holds exactly one record, that of
\* bar 22 (row 23), a success; the summary has total 1 and success rate 100%;
\* no bar of the warm-up range 0..18 (rows 1..19) is a signal record.
C1_ExampleRunOneRecord ==
    (IsExampleRun /\ pc = "done") =>
        /\ Len(signals) = 1
        /\ signals[1].idx = 23
        /\ signals[1].Success = TRUE
        /\ RecordRows \cap (1..19) = {}
        /\ outcome = "results"
        /\ summary.total_signals = 1
        /\ summary.success_rate.n = 100 * summary.success_rate.d

\* C2: volume_ratio[t] is 0 whenever avg_volume[t] is 0 or undefined (the
\* first 19 bars, or a 20-bar volume mean of 0), whatever volume[t] is; no
\* non-finite volume_ratio is produced or reaches the high_volume comparison.
C2_VolumeRatioGuarded ==
    HasIndicators =>
        \A t \in 1..N :
            /\ IsFinite(Volume_Ratio[t])
            /\ (t < VolWindow \/ IsZero(Avg_Volume[t])) => IsZero(Volume_Ratio[t])
            /\ (HasSignal /\ (t < VolWindow \/ IsZero(Avg_Volume[t])))
                   => High_Volume[t] = FALSE

\* C3: high_close_ratio[t] >= 0, and it is 0 exactly when high[t] = 0.
C3_HighCloseRatioZeroIffHighZero ==
    HasIndicators =>
        \A t \in 1..N :
            /\ Ge(High_Close_Ratio[t], Num(0))
            /\ IsZero(High_Close_Ratio[t]) <=> (data[t].High = 0)

\* C4: signal_records holds exactly the bars whose signal flag is true and
\* that have a following bar, each once, in ascending order; the last bar is
\* never a signal record.
C4_RecordsAreSignalBarsWithNext ==
    HasBacktest =>
        /\ RecordRows = {t \in 1..N : Signal[t] /\ t < N}
        /\ \A i \in 1..Len(signals) : \A j \in 1..Len(signals) :
              i < j => signals[i].idx < signals[j].idx
        /\ N \notin RecordRows

C4_LastBarSignalDropped ==
    /\ pc = "backtest"
    /\ N >= 2
    /\ Signal[N]
    /\ Len(signals) >= 1

\* the three conditions of row t, from the bars and the indicator columns
TrendHolds(t) == SMA[t].k = "num" /\ data[t].Close * SMA[t].d > SMA[t].n
HighCloseHolds(t) ==
    \/ High_Close_Ratio[t] = PosInf
    \/ /\ High_Close_Ratio[t].k = "num"
       /\ High_Close_Ratio[t].n * HighCloseUnit >= high_close_threshold * High_Close_Ratio[t].d
HighVolumeHolds(t) ==
    \/ Volume_Ratio[t] = PosInf
    \/ /\ Volume_Ratio[t].k = "num"
       /\ Volume_Ratio[t].n * VolMultUnit > volume_multiplier * Volume_Ratio[t].d

\* C5: signal[t] holds iff close > sma (strict), high_close_ratio >=
\* threshold (non-strict) and volume_ratio > multiplier (strict); a tie
\* close = sma or volume_ratio = multiplier gives no signal, a tie
\* high_close_ratio = threshold does not block one.
C5_SignalIsConjunction ==
    HasSignal =>
        \A t \in 1..N :
            /\ Strong_Trend[t] = TrendHolds(t)
            /\ High_Close[t] = HighCloseHolds(t)
            /\ High_Volume[t] = HighVolumeHolds(t)
            /\ Signal[t] = (TrendHolds(t) /\ HighCloseHolds(t) /\ HighVolumeHolds(t))
            /\ (t >= sma_period /\ data[t].Close * sma_period = ClosesEndingAt(t, sma_period))
                   => ~Signal[t]
            /\ (t >= VolWindow /\ VolumesEndingAt(t, VolWindow) > 0
                  /\ data[t].Volume * VolWindow * VolMultUnit
                        = volume_multiplier * VolumesEndingAt(t, VolWindow))
                   => ~Signal[t]
            /\ (data[t].High > 0
                  /\ data[t].Close * HighCloseUnit = high_close_threshold * data[t].High
                  /\ TrendHolds(t) /\ HighVolumeHolds(t))
                   => Signal[t]

\* a run past both warm-ups with a signal row on the high-close tie and a
\* row kept from being a signal by the volume tie alone
C5_TiesReached ==
    /\ HasSignal
    /\ \E t \in 1..N :
          /\ t >= VolWindow /\ t >= sma_period
          /\ data[t].High > 0
          /\ data[t].Close * HighCloseUnit = high_close_threshold * data[t].High
          /\ IsFinite(Volume_Ratio[t])
          /\ Signal[t]
    /\ \E t \in 1..N :
          /\ t >= VolWindow /\ t >= sma_period
          /\ data[t].Volume * VolWindow * VolMultUnit
                = volume_multiplier * VolumesEndingAt(t, VolWindow)
          /\ Strong_Trend[t] /\ High_Close[t] /\ ~Signal[t]

\* C6: with no signal bar, or only a last-bar signal (the empty sequence
\* included), the run ends in the "no signals found" outcome, total is 0 and
\* no success rate or mean return is computed; with at least one signal
\* record that outcome is not reported.
C6_NoSignalsOutcome ==
    pc = "done" =>
        IF {t \in 1..N : Signal[t]} \subseteq {N}
        THEN outcome = "no_signals" /\ Len(signals) = 0 /\ summary = NoSummary
        ELSE outcome = "results" /\ Len(signals) > 0 /\ summary.computed

C6_OnlyLastBarSignals ==
    /\ pc = "done"
    /\ N >= 1
    /\ {t \in 1..N : Signal[t]} = {N}
    /\ outcome = "no_signals"

\* C7: with signal records, total is their number, successes the number with
\* next_close > close, success_rate = successes/total, and mean_return the sum
\* of (next_close - close)/close over all the records divided by total.
C7_SummaryFigures ==
    outcome = "results" =>
        /\ summary.total_signals = Len(signals)
        /\ summary.avg_return.count = summary.total_signals
        /\ \A i \in 1..Len(signals) : signals[i].idx < N
        /\ summary.successes =
              Cardinality({i \in 1..Len(signals) :
                 data[signals[i].idx + 1].Close > data[signals[i].idx].Close})
        /\ summary.success_rate.k = "num"
        /\ summary.success_rate.n * summary.total_signals
              = summary.successes * Percent * summary.success_rate.d
        /\ \A i \in 1..Len(signals) :
              LET r == summary.avg_return.addends[i]
                  c == data[signals[i].idx].Close
                  nc == data[signals[i].idx + 1].Close
              IN r.k = "num" /\ r.n * c = (nc - c) * r.d

\* results past both warm-ups with successes and a failure among the records
C7_MixedResults ==
    /\ outcome = "results"
    /\ N > VolWindow
    /\ summary.total_signals >= 3
    /\ summary.successes >= 2
    /\ summary.successes < summary.total_signals

\* C8: sma[t] = 0 on the first W-1 positions; from position W-1 on it is the
\* mean of the W closes ending at and including t; the series is as long as
\* the bar sequence.
C8_SmaWarmupAndMean ==
    HasIndicators =>
        /\ Len(SMA) = N
        /\ \A t \in 1..N :
              IF t < sma_period
              THEN SMA[t] = Num(0)
              ELSE SMA[t].k = "num"
                   /\ SMA[t].n * sma_period = ClosesEndingAt(t, sma_period) * SMA[t].d

C8_PastWarmup ==
    /\ pc = "indicators"
    /\ sma_period < VolWindow
    /\ N > VolWindow
    /\ ~IsZero(SMA[N])
    /\ IsZero(SMA[sma_period - 1])

\* C9: for a warm-up bar (t < W-1) strong_trend[t] holds exactly when
\* close[t] > 0, so a warm-up bar that passes high_close and high_volume is a
\* signal bar and, with a next bar, a signal record.
C9_WarmupTrendIsClosePositive ==
    HasSignal =>
        \A t \in 1..N :
            t < sma_period =>
                /\ Strong_Trend[t] = (data[t].Close > 0)
                /\ (data[t].Close > 0 /\ High_Close[t] /\ High_Volume[t]) => Signal[t]
                /\ (HasBacktest /\ data[t].Close > 0 /\ High_Close[t]
                       /\ High_Volume[t] /\ t < N) => t \in RecordRows

C9_WarmupSignalRecord ==
    /\ HasBacktest
    /\ \E t \in RecordRows : t < sma_period
    /\ \E t \in 1..N : t < sma_period /\ data[t].Close = 0 /\ ~Strong_Trend[t]

\* C10: with non-negative closes every signal record has close > 0, so its
\* return is defined (no division by zero) and its success flag equals
\* next_close > close.
C10_RecordCloseIsPositive ==
    HasBacktest =>
        \A i \in 1..Len(signals) :
            LET t == signals[i].idx
            IN /\ data[t].Close > 0
               /\ IsFinite(signals[i].Return)
               /\ t < N =>
                    signals[i].Success = (data[t + 1].Close > data[t].Close)

\* a signal record whose next close is 0, in a run that also has a zero close
\* on a bar that is no record
C10_RecordBeforeZeroClose ==
    /\ HasBacktest
    /\ \E i \in 1..Len(signals) :
          /\ signals[i].idx < N
          /\ data[signals[i].idx + 1].Close = 0
          /\ ~signals[i].Success

=============================================================================
